---------------------------- MODULE Spec2Model ----------------------------
(***************************************************************************)
(* Model of the spaCy NER sidecar (src/sidecar/server.py).                 *)
(*                                                                         *)
(* main() parses the arguments, stores the model identifier, loads the     *)
(* spaCy model into the process-wide handle _nlp and then runs the HTTP    *)
(* server.  The server dispatches POST /extract and GET /health to the     *)
(* two handlers; the handlers are plain `def` functions, so the framework  *)
(* runs them on worker threads and their steps interleave.                 *)
(*                                                                         *)
(* Representation.                                                         *)
(*   - a text is a sequence of characters; Python's 0-based, end-exclusive *)
(*     offsets are kept as they are (PySlice translates them);             *)
(*   - time.monotonic() is the integer `clock`, counted in ticks of        *)
(*     1/UnitsPerTenth tenths of a millisecond; duration_ms is kept as an  *)
(*     integer number of tenths of a millisecond (one decimal place);      *)
(*   - the loaded recognizer is an opaque deterministic function of the    *)
(*     text; `oracle` holds the part of that function that calls have      *)
(*     revealed so far.                                                    *)
(***************************************************************************)
EXTENDS Integers, Sequences, FiniteSets, TLC

\* ------------------------------------------------------------------ bounds

MaxReq == 2          \* requests the server receives, numbered as they arrive
MaxClock == 2        \* last tick of the monotonic clock
UnitsPerTenth == 2   \* clock ticks per tenth of a millisecond

Req == 1..MaxReq
Labels == {"PERSON", "GPE"}
ModelNames == {"en_core_web_sm", "en_core_web_md"}

\* The request texts tried: the empty text and a text with room for two
\* entities.
Texts == {<<>>, <<"O", "p">>}

\* ------------------------------------------------------------ Python helpers

Min(a, b) == IF a <= b THEN a ELSE b
Max(a, b) == IF a >= b THEN a ELSE b

\* s[i:j] of a Python sequence: negative indices count from the end, indices
\* are clamped to [0, len(s)], and an empty range gives the empty sequence.
PySlice(s, i, j) ==
    LET n == Len(s)
        lo == IF i < 0 THEN Max(0, n + i) ELSE Min(n, i)
        hi == IF j < 0 THEN Max(0, n + j) ELSE Min(n, j)
    IN  IF lo >= hi THEN <<>> ELSE SubSeq(s, lo + 1, hi)

\* Rounding of a duration given in clock ticks to a multiple of `unit`
\* ticks, to the nearest multiple and on a tie to the even one, as round()
\* and "%.0f" do.
RoundTo(ticks, unit) ==
    LET a == IF ticks < 0 THEN -ticks ELSE ticks
        q == a \div unit
        r == a % unit
        up == \/ 2 * r > unit
              \/ (2 * r = unit /\ q % 2 = 1)
        m == IF up THEN q + 1 ELSE q
    IN  IF ticks < 0 THEN -m ELSE m

\* round(duration, 1): tenths of a millisecond.
Round1(ticks) == RoundTo(ticks, UnitsPerTenth)

\* "%.0f" % duration: whole milliseconds.
Format0(ticks) == RoundTo(ticks, 10 * UnitsPerTenth)

\* ------------------------------------------------- the external recognizer

\* The entity spans spaCy can report for `text` starting at offset `from`.
\* A span covers at least one character, its text is the covered part of
\* the document text, and it carries one label.
SpansFrom(text, from) ==
    {[text |-> PySlice(text, p[1], p[2]), label_ |-> l,
      start_char |-> p[1], end_char |-> p[2]] :
        p \in {q \in (0..Len(text)) \X (0..Len(text)) :
                  q[1] >= from /\ q[1] < q[2]},
        l \in Labels}

\* doc.ents: a sequence of non-overlapping spans in document order.
RECURSIVE EntsFrom(_, _)
EntsFrom(text, from) ==
    {<<>>} \cup
    UNION {{<<sp>> \o rest : rest \in EntsFrom(text, sp.end_char)} :
              sp \in SpansFrom(text, from)}

DocEnts(text) == EntsFrom(text, 0)

None == "None"

\* ------------------------------------------------------------------- state

VARIABLES
    phase,        \* where main() is: start, parsed, named, loaded, serving, exited
    failure,      \* why the process exited: none, usage, load, bind
    args,         \* the parsed command line (args.model, args.port)
    _nlp,         \* the process-wide model handle
    _model_name,  \* the process-wide model identifier
    clock,        \* time.monotonic()
    oracle,       \* <<text, ents>> pairs the loaded recognizer has answered
    pc,           \* per request: idle, extract, call, built, health, done
    request,      \* per request: the HTTP request
    start,        \* per request: the handler's local `start` (0 outside the handler)
    doc,          \* per request: the handler's local `doc` (its ents)
    entities,     \* per request: the handler's local `entities`
    calls,        \* per request: calls of _nlp made for it
    logged,       \* per request: the log line the handler emitted
    raised,       \* per request: the exception the call of _nlp raised
    resp          \* per request: the HTTP response

vars == <<phase, failure, args, _nlp, _model_name, clock, oracle,
          pc, request, start, doc, entities, calls, logged, raised, resp>>

globals == <<phase, failure, args, _nlp, _model_name>>
locals == <<start, doc, entities, calls, logged, raised>>

\* ------------------------------------------------------ requests, responses

JsonString(t) == [type |-> "string", val |-> t]
JsonNull == [type |-> "null", val |-> <<>>]
JsonNumber == [type |-> "number", val |-> <<>>]
JsonValues == {JsonString(t) : t \in Texts} \cup {JsonNull, JsonNumber}

\* A JSON object body with or without a "text" member.
NoText == [has_text |-> FALSE, text |-> JsonNull]
Bodies == {NoText} \cup {[has_text |-> TRUE, text |-> v] : v \in JsonValues}

Requests ==
    {[route |-> "POST /extract", body |-> b] : b \in Bodies}
    \cup {[route |-> "GET /health", body |-> NoText]}

NoRequest == [route |-> "", body |-> NoText]
NoResponse == [code |-> 0, body |-> [detail |-> ""]]
NoLine == [count |-> 0, ms |-> 0, pairs |-> <<>>]
NoException == ""

\* Variant of ExtractRequestValid: `text` declared with a default, so a body
\* without it passes.
ExtractRequestTextOptional(body) ==
    ~body.has_text \/ body.text.type = "string"

\* class ExtractRequest: `text` is required and must be a JSON string.
ExtractRequestValid(body) == body.has_text /\ body.text.type = "string"

UnprocessableEntity == [code |-> 422, body |-> [detail |-> "text: invalid"]]
InternalServerError == [code |-> 500, body |-> [detail |-> "Internal Server Error"]]
Ok(body) == [code |-> 200, body |-> body]

\* ------------------------------------------------------ the extract handler

\* Variant of ToEntity: the end offset made inclusive.
ToEntityInclusiveEnd(ent) ==
    [text |-> ent.text, label |-> ent.label_,
     start |-> ent.start_char, end |-> ent.end_char - 1]

\* Entity(text=ent.text, label=ent.label_, start=ent.start_char, end=ent.end_char)
ToEntity(ent) ==
    [text |-> ent.text, label |-> ent.label_,
     start |-> ent.start_char, end |-> ent.end_char]

\* Variant of Entities: the list built in reverse order.
EntitiesReversed(ents) ==
    [i \in 1..Len(ents) |-> ToEntity(ents[Len(ents) + 1 - i])]

\* [Entity(...) for ent in doc.ents]
Entities(ents) == [i \in 1..Len(ents) |-> ToEntity(ents[i])]

\* Variant of HasEntities: the comparison off by one.
HasEntitiesMoreThanOne(es) == Len(es) > 1

\* len(entities) > 0
HasEntities(es) == Len(es) > 0

\* Variant of Duration: the operands of the subtraction exchanged.
DurationSwapped(startT, endT) == startT - endT

\* time.monotonic() - start, in clock ticks
Duration(startT, endT) == endT - startT

\* log.info("Found %d entities in %.0fms: %s", ...), emitted if entities
LogLine(es, duration) ==
    IF Len(es) > 0
    THEN [count |-> Len(es), ms |-> Format0(duration),
          pairs |-> [i \in 1..Len(es) |-> <<es[i].text, es[i].label>>]]
    ELSE NoLine

\* ExtractResponse(entities=..., has_entities=..., duration_ms=round(duration, 1))
ExtractResponse(es, duration) ==
    [entities |-> es, has_entities |-> HasEntities(es),
     duration_ms |-> Round1(duration)]

\* What _nlp(text) can return: the recognizer is a function of the text, so
\* a text it has answered before gets the same answer again.
NlpResults(text) ==
    LET known == {p[2] : p \in {q \in oracle : q[1] = text}}
    IN  IF known # {} THEN known ELSE DocEnts(text)

\* ------------------------------------------------------------------ startup

DefaultPort == 8099
NoArgs == [model |-> None, port |-> 0]

Init ==
    /\ phase = "start"
    /\ failure = "none"
    /\ args = NoArgs
    /\ _nlp = None
    /\ _model_name = None
    /\ clock = 0
    /\ oracle = {}
    /\ pc = [r \in Req |-> "idle"]
    /\ request = [r \in Req |-> NoRequest]
    /\ start = [r \in Req |-> 0]
    /\ doc = [r \in Req |-> <<>>]
    /\ entities = [r \in Req |-> <<>>]
    /\ calls = [r \in Req |-> 0]
    /\ logged = [r \in Req |-> NoLine]
    /\ raised = [r \in Req |-> NoException]
    /\ resp = [r \in Req |-> NoResponse]

runtime == <<clock, oracle, pc, request, start, doc, entities,
             calls, logged, raised, resp>>

\* args = parser.parse_args(), with --model given or left at its default
ParseArgs ==
    /\ phase = "start"
    /\ \E m \in ModelNames : args' = [model |-> m, port |-> DefaultPort]
    /\ phase' = "parsed"
    /\ UNCHANGED <<failure, _nlp, _model_name, runtime>>

\* parse_args() rejects the command line and exits
ParseArgsFails ==
    /\ phase = "start"
    /\ phase' = "exited"
    /\ failure' = "usage"
    /\ UNCHANGED <<args, _nlp, _model_name, runtime>>

\* _model_name = args.model
SetModelName ==
    /\ phase = "parsed"
    /\ _model_name' = args.model
    /\ phase' = "named"
    /\ UNCHANGED <<failure, args, _nlp, runtime>>

\* The handle spacy.load(name) returns, identified by the pipeline's name.
SpacyLoad(name) == name

\* _nlp = spacy.load(_model_name)
LoadModel ==
    /\ phase = "named"
    /\ _nlp' = SpacyLoad(_model_name)
    /\ phase' = "loaded"
    /\ UNCHANGED <<failure, args, _model_name, runtime>>

\* Variant of LoadModelFails: the exception is caught and logged, and
\* main() goes on to start the server.
LoadModelFailureSwallowed ==
    /\ phase = "named"
    /\ phase' = "loaded"
    /\ failure' = "load"
    /\ UNCHANGED <<args, _nlp, _model_name, runtime>>

\* spacy.load raises: the exception leaves main() and the process ends
LoadModelFails ==
    /\ phase = "named"
    /\ phase' = "exited"
    /\ failure' = "load"
    /\ UNCHANGED <<args, _nlp, _model_name, runtime>>

\* uvicorn.run(app, ...) binds the port and accepts connections
RunServer ==
    /\ phase = "loaded"
    /\ phase' = "serving"
    /\ UNCHANGED <<failure, args, _nlp, _model_name, runtime>>

\* uvicorn.run cannot bind the port and exits
RunServerFails ==
    /\ phase = "loaded"
    /\ phase' = "exited"
    /\ failure' = "bind"
    /\ UNCHANGED <<args, _nlp, _model_name, runtime>>

\* ----------------------------------------------------------------- serving

\* The monotonic clock advances.
Tick ==
    /\ phase = "serving"
    /\ clock < MaxClock
    /\ clock' = clock + 1
    /\ UNCHANGED <<globals, oracle, pc, request, locals, resp>>

\* The response of the framework to a request it does not hand to a handler,
\* or the program counter of the handler it hands it to.
Dispatch(rq) ==
    IF rq.route = "GET /health" THEN [pc |-> "health", resp |-> NoResponse]
    ELSE IF ExtractRequestValid(rq.body)
         THEN [pc |-> "extract", resp |-> NoResponse]
         ELSE [pc |-> "done", resp |-> UnprocessableEntity]

\* Request r arrives (after request r - 1); the framework routes it and
\* validates its body against the handler's parameter model.
Receive(r) ==
    /\ phase = "serving"
    /\ pc[r] = "idle"
    /\ IF r = 1 THEN TRUE ELSE pc[r - 1] # "idle"
    /\ \E rq \in Requests :
          /\ request' = [request EXCEPT ![r] = rq]
          /\ pc' = [pc EXCEPT ![r] = Dispatch(rq).pc]
          /\ resp' = [resp EXCEPT ![r] = Dispatch(rq).resp]
    /\ UNCHANGED <<globals, clock, oracle, locals>>

\* req.text
ReqText(r) == request[r].body.text.val

\* start = time.monotonic()
ExtractStart(r) ==
    /\ pc[r] = "extract"
    /\ start' = [start EXCEPT ![r] = clock]
    /\ pc' = [pc EXCEPT ![r] = "call"]
    /\ UNCHANGED <<globals, clock, oracle, request, doc, entities,
                   calls, logged, raised, resp>>

\* Variant of ExtractCall: `entities` is a module-level list that is
\* extended and never cleared, so it still holds the previous request's.
ExtractCallSharedList(r) ==
    /\ pc[r] = "call"
    /\ _nlp # None
    /\ \E d \in NlpResults(ReqText(r)) :
          /\ oracle' = oracle \cup {<<ReqText(r), d>>}
          /\ doc' = [doc EXCEPT ![r] = d]
          /\ entities' = [entities EXCEPT ![r] =
                (IF r > 1 THEN entities[r - 1] ELSE <<>>) \o Entities(d)]
    /\ calls' = [calls EXCEPT ![r] = @ + 1]
    /\ pc' = [pc EXCEPT ![r] = "built"]
    /\ UNCHANGED <<globals, clock, request, start, logged, raised, resp>>

\* doc = _nlp(req.text); entities = [Entity(...) for ent in doc.ents]
ExtractCall(r) ==
    /\ pc[r] = "call"
    /\ _nlp # None
    /\ \E d \in NlpResults(ReqText(r)) :
          /\ oracle' = oracle \cup {<<ReqText(r), d>>}
          /\ doc' = [doc EXCEPT ![r] = d]
          /\ entities' = [entities EXCEPT ![r] = Entities(d)]
    /\ calls' = [calls EXCEPT ![r] = @ + 1]
    /\ pc' = [pc EXCEPT ![r] = "built"]
    /\ UNCHANGED <<globals, clock, request, start, logged, raised, resp>>

\* Variant of ExtractCallRaises: the handler catches the exception and
\* answers with an empty entity list.
ExtractCallCaught(r) ==
    /\ pc[r] = "call"
    /\ calls' = [calls EXCEPT ![r] = @ + 1]
    /\ pc' = [pc EXCEPT ![r] = "done"]
    /\ raised' = [raised EXCEPT ![r] = "Exception"]
    /\ resp' = [resp EXCEPT ![r] = Ok(ExtractResponse(<<>>, 0))]
    /\ start' = [start EXCEPT ![r] = 0]
    /\ UNCHANGED <<globals, clock, oracle, request, doc, entities, logged>>

\* Variant of ExtractCallRaises: the handler drops the model handle when
\* the call fails.
ExtractCallRaisesDropsModel(r) ==
    /\ pc[r] = "call"
    /\ calls' = [calls EXCEPT ![r] = @ + 1]
    /\ pc' = [pc EXCEPT ![r] = "done"]
    /\ raised' = [raised EXCEPT ![r] = "Exception"]
    /\ resp' = [resp EXCEPT ![r] = InternalServerError]
    /\ start' = [start EXCEPT ![r] = 0]
    /\ _nlp' = None
    /\ UNCHANGED <<phase, failure, args, _model_name, clock, oracle, request,
                   doc, entities, logged>>

\* _nlp(req.text) raises (or _nlp is None and cannot be called): nothing in
\* the handler catches it and the framework answers 500.
ExtractCallRaises(r) ==
    /\ pc[r] = "call"
    /\ calls' = [calls EXCEPT ![r] = @ + 1]
    /\ pc' = [pc EXCEPT ![r] = "done"]
    /\ raised' = [raised EXCEPT ![r] = "Exception"]
    /\ resp' = [resp EXCEPT ![r] = InternalServerError]
    /\ start' = [start EXCEPT ![r] = 0]
    /\ UNCHANGED <<globals, clock, oracle, request, doc, entities, logged>>

\* duration = (time.monotonic() - start) * 1000; the log line; the return
ExtractFinish(r) ==
    /\ pc[r] = "built"
    /\ LET duration == Duration(start[r], clock)
       IN  /\ logged' = [logged EXCEPT ![r] = LogLine(entities[r], duration)]
           /\ resp' = [resp EXCEPT ![r] =
                          Ok(ExtractResponse(entities[r], duration))]
    /\ pc' = [pc EXCEPT ![r] = "done"]
    /\ start' = [start EXCEPT ![r] = 0]
    /\ UNCHANGED <<globals, clock, oracle, request, doc, entities, calls,
                   raised>>

\* Variant of HealthResponse: the default model name instead of the one
\* main() stored.
HealthResponseDefaultModel == [status |-> "ok", model |-> "en_core_web_sm"]

\* return {"status": "ok", "model": _model_name}
HealthResponse == [status |-> "ok", model |-> _model_name]

Health(r) ==
    /\ pc[r] = "health"
    /\ resp' = [resp EXCEPT ![r] = Ok(HealthResponse)]
    /\ pc' = [pc EXCEPT ![r] = "done"]
    /\ UNCHANGED <<globals, clock, oracle, request, locals>>

Next ==
    \/ ParseArgs
    \/ ParseArgsFails
    \/ SetModelName
    \/ LoadModel
    \/ LoadModelFails
    \/ RunServer
    \/ RunServerFails
    \/ Tick
    \/ \E r \in Req : Receive(r)
    \/ \E r \in Req : ExtractStart(r)
    \/ \E r \in Req : ExtractCall(r)
    \/ \E r \in Req : ExtractCallRaises(r)
    \/ \E r \in Req : ExtractFinish(r)
    \/ \E r \in Req : Health(r)

Spec == Init /\ [][Next]_vars

\* ------------------------------------------------------------------ claims

\* Request r was a POST /extract and has been answered with an ExtractResponse.
Extracted(r) ==
    /\ pc[r] = "done"
    /\ request[r].route = "POST /extract"
    /\ resp[r].code = 200

\* Request r was a GET /health and has been answered.
HealthServed(r) == pc[r] = "done" /\ request[r].route = "GET /health"

\* C1: in every /extract response, has_entities is true exactly when the
\* entities list is non-empty, whatever entities the model produced.
C1_HasEntitiesIffNonEmpty ==
    \A r \in Req :
        Extracted(r) =>
            (resp[r].body.has_entities <=> Len(resp[r].body.entities) > 0)

\* C1 witness: one response with entities and one with none.
C1_Witness ==
    \E r, q \in Req :
        /\ Extracted(r) /\ Len(resp[r].body.entities) > 0
        /\ Extracted(q) /\ Len(resp[q].body.entities) = 0

\* C2: whenever connections are accepted the model handle is set, and once
\* the model load has failed the process has exited without serving.
C2_ServeOnlyAfterLoad ==
    /\ phase = "serving" => _nlp # None /\ failure = "none"
    /\ failure = "load" => phase = "exited" /\ _nlp = None
    /\ phase \in {"start", "parsed", "named"} => \A r \in Req : pc[r] = "idle"
    /\ (\E r \in Req : pc[r] # "idle") => _nlp # None

\* C2 witness: the load failed and the process is gone with no request taken.
C2_WitnessLoadFailed ==
    /\ failure = "load"
    /\ phase = "exited"
    /\ \A r \in Req : pc[r] = "idle"

\* C3: every answered GET /health carries status "ok" and the model
\* identifier given on the command line, whatever requests came before.
C3_HealthReportsStartupModel ==
    \A r \in Req :
        HealthServed(r) =>
            /\ resp[r].code = 200
            /\ resp[r].body.status = "ok"
            /\ resp[r].body.model = args.model

\* C3 witness: a health answer after a failed /extract, with a model
\* identifier that is not the default.
C3_Witness ==
    \E r, q \in Req :
        /\ q < r
        /\ HealthServed(r)
        /\ pc[q] = "done" /\ resp[q].code = 500
        /\ args.model = "en_core_web_md"

Malformed(r) ==
    /\ request[r].route = "POST /extract"
    /\ \/ ~request[r].body.has_text
       \/ request[r].body.text.type # "string"

\* The process-wide state is what main() left when it started the server.
StartupStateKept ==
    /\ phase = "serving"
    /\ failure = "none"
    /\ _nlp = SpacyLoad(args.model)
    /\ _model_name = args.model

\* C5: a POST /extract whose body has no text, or a text that is no string,
\* is answered with a client error without the handler running: no clock
\* read, no model call, no entity list, no log line, no exception, and the
\* process-wide state stays as main() left it, the server still serving.
C5_MalformedRejectedBeforeHandler ==
    \A r \in Req :
        Malformed(r) =>
            /\ pc[r] = "done"
            /\ resp[r].code \in 400..499
            /\ calls[r] = 0
            /\ start[r] = 0
            /\ doc[r] = <<>>
            /\ entities[r] = <<>>
            /\ logged[r] = NoLine
            /\ raised[r] = NoException
            /\ StartupStateKept

\* C5 witness: a request without text was rejected and a later request was
\* served with entities.
C5_Witness ==
    \E r, q \in Req :
        /\ r < q
        /\ Malformed(r) /\ ~request[r].body.has_text /\ resp[r].code = 422
        /\ Extracted(q) /\ Len(resp[q].body.entities) > 0

\* Request r is a POST /extract that passed validation.
Handled(r) ==
    /\ pc[r] # "idle"
    /\ request[r].route = "POST /extract"
    /\ ~Malformed(r)

\* C6: a handled /extract request calls the model once, and ends either
\* with a whole ExtractResponse or, if the call raised, with a server error
\* and nothing else: the exception is not caught, the call is not repeated,
\* no entity list, log line or response body is produced, and the model
\* handle and identifier are unchanged.
C6_OneCallAllOrNothing ==
    \A r \in Req :
        Handled(r) =>
            /\ calls[r] <= 1
            /\ pc[r] \in {"built", "done"} => calls[r] = 1
            /\ pc[r] = "done" =>
                  \/ /\ raised[r] = NoException
                     /\ resp[r].code = 200
                     /\ Len(resp[r].body.entities) = Len(doc[r])
                  \/ /\ raised[r] # NoException
                     /\ resp[r] = InternalServerError
                     /\ entities[r] = <<>>
                     /\ logged[r] = NoLine
            /\ raised[r] # NoException => pc[r] = "done"
            /\ StartupStateKept

\* C6 witness: one request failed in the model call and another succeeded
\* with entities.
C6_Witness ==
    \E r, q \in Req :
        /\ Handled(r) /\ pc[r] = "done" /\ raised[r] # NoException
        /\ Handled(q) /\ Extracted(q) /\ Len(resp[q].body.entities) > 0

\* C7: duration_ms of every /extract response is at least 0.
C7_DurationNonNegative ==
    \A r \in Req : Extracted(r) => resp[r].body.duration_ms >= 0

\* C7 witness: a response whose duration is above 0 after rounding.
C7_Witness ==
    \E r \in Req : Extracted(r) /\ resp[r].body.duration_ms > 0

\* C8: _nlp and _model_name change only in main(), each once, from None,
\* before the server starts; no step of a request changes them, and while
\* the server runs both are set.
C8_GlobalsWrittenOnceAtStartup ==
    /\ [][/\ _nlp' # _nlp => phase = "named" /\ _nlp = None
          /\ _model_name' # _model_name => phase = "parsed" /\ _model_name = None
          /\ phase = "serving" => _nlp' = _nlp /\ _model_name' = _model_name
         ]_vars
    /\ [](phase = "serving" => _nlp # None /\ _model_name # None)

\* C8 witness: the server is running, one request failed and one succeeded.
C8_Witness ==
    /\ phase = "serving"
    /\ _nlp # None
    /\ _model_name # None
    /\ \E r, q \in Req :
          /\ pc[r] = "done" /\ resp[r].code = 500
          /\ pc[q] = "done" /\ resp[q].code = 200

\* C9: the entities of an /extract response are the model's entities for the
\* request, one for one and in the same order, each with the model entity's
\* text, label and offsets.
C9_EntitiesMirrorModel ==
    \A r \in Req :
        Extracted(r) =>
            LET es == resp[r].body.entities
                ms == doc[r]
            IN  /\ Len(es) = Len(ms)
                /\ \A i \in 1..Len(ms) :
                      /\ es[i].text = ms[i].text
                      /\ es[i].label = ms[i].label_
                      /\ es[i].start = ms[i].start_char
                      /\ es[i].end = ms[i].end_char

\* C9 witness: a response with two entities of different labels.
C9_Witness ==
    \E r \in Req :
        /\ Extracted(r)
        /\ Len(resp[r].body.entities) = 2
        /\ resp[r].body.entities[1].label # resp[r].body.entities[2].label

\* The recognizer's answer for the text of request r.
Alone(r) == {p[2] : p \in {q \in oracle : q[1] = request[r].body.text.val}}

\* C10: the entities and has_entities of an /extract response are those of
\* handling the request alone, i.e. the recognizer's one answer for its
\* text, however the requests interleave; two responses for the same text
\* agree.
C10_ResponseDependsOnTextOnly ==
    /\ \A r \in Req :
          Extracted(r) =>
              /\ Cardinality(Alone(r)) = 1
              /\ \A d \in Alone(r) :
                    /\ resp[r].body.entities = Entities(d)
                    /\ resp[r].body.has_entities = (Len(d) > 0)
    /\ \A r, q \in Req :
          /\ Extracted(r)
          /\ Extracted(q)
          /\ request[r].body.text.val = request[q].body.text.val
          => /\ resp[r].body.entities = resp[q].body.entities
             /\ resp[r].body.has_entities = resp[q].body.has_entities

\* C10 witness: request 2 was answered with entities while request 1, for
\* the same text, was still between its model call and its return.
C10_Witness ==
    \E r, q \in Req :
        /\ r < q
        /\ pc[r] = "built"
        /\ Extracted(q)
        /\ request[r].body.text.val = request[q].body.text.val
        /\ Len(resp[q].body.entities) = 2

====
